---------------------------- MODULE Spec2Model ----------------------------
(***************************************************************************)
(* Model of octopus_sensing/devices/brainflow_streaming.py:                *)
(* BrainFlowStreaming, one device session made of two threads that share   *)
(* _stream_data, _trigger and _terminate without a lock:                   *)
(*   - the control loop  _run          (lines 82-115)                      *)
(*   - the acquisition worker _stream_loop (lines 117-134)                 *)
(* plus the persistence writer _save_to_file (151-164) and the monitoring  *)
(* snapshot _get_monitoring_data (166-170).                                *)
(*                                                                         *)
(* Every statement that reads or writes shared state is one step, so the   *)
(* interleavings of the model are the interleavings of the two threads.    *)
(* Strings are sequences of one-character strings; None (for _trigger) is   *)
(* the empty sequence, which no formatted tag can equal.                   *)
(***************************************************************************)
EXTENDS Integers, Sequences, FiniteSets, TLC

\* ------------------------------------------------------------------ bounds
MaxMsgs == 3        \* control messages the orchestrator sends in a session
MaxSamples == 3     \* samples the board delivers in a session
MaxPull == 2        \* samples one get_board_data() call can return
MaxRate == 1        \* largest configured sampling_rate

\* --------------------------------------------------------------- constants
MonitorSeconds == 3 \* "Last three seconds" of _get_monitoring_data
ZfillWidth == 2     \* str(message.stimulus_id).zfill(2)

CONTINIOUS_SAVING_MODE == "CONTINIOUS_SAVING_MODE"
SEPARATED_SAVING_MODE == "SEPARATED_SAVING_MODE"
SavingModeEnum == {CONTINIOUS_SAVING_MODE, SEPARATED_SAVING_MODE}

None == << >>
NoneStr == <<"None">>          \* str(None)

\* ---------------------------------------------------------------- messages
START == "START"
STOP == "STOP"
TERMINATE == "TERMINATE"
SAVE == "SAVE"                 \* a kind _run has no branch for

Msg(t, e, s) == [type |-> t, experiment_id |-> e, stimulus_id |-> s]
NoneMsg == Msg("<None>", None, None)

\* The messages the orchestrator sends: an experiment with a one-character
\* stimulus id, one with a two-character stimulus id, and the other kinds.
Ids == {<<<<"1">>, <<"3">>>>, <<<<"2">>, <<"1", "2">>>>}

Messages ==
    {Msg(t, id[1], id[2]) : t \in {START, STOP}, id \in Ids}
        \cup {Msg(TERMINATE, NoneStr, NoneStr), Msg(SAVE, <<"1">>, <<"3">>), NoneMsg}

\* ----------------------------------------------------------------- helpers
Range(s) == {s[i] : i \in 1..Len(s)}

Zeros(n) == [i \in 1..n |-> "0"]

\* (mutant) the padding dropped: str(message.stimulus_id) as it is
zfill_none(s, width) == s

\* str.zfill(width): pad on the left with "0", after a leading sign if any.
zfill(s, width) ==
    IF Len(s) >= width THEN s
    ELSE IF Len(s) > 0 /\ s[1] \in {"+", "-"}
         THEN <<s[1]>> \o Zeros(width - Len(s)) \o Tail(s)
         ELSE Zeros(width - Len(s)) \o s

\* "{0}-{1}-{2}".format(message.type, message.experiment_id, ...zfill(2))
TriggerTag(m) ==
    <<m.type>> \o <<"-">> \o m.experiment_id \o <<"-">> \o zfill(m.stimulus_id, ZfillWidth)

DeviceName == <<"device">>
OutputPath == <<"out">>

\* "{0}/{1}-{2}-{3}.csv".format(output_path, name, experiment_id, stimulus_id)
SeparatedFileName(exp, stim) ==
    OutputPath \o <<"/">> \o DeviceName \o <<"-">> \o exp \o <<"-">> \o stim \o <<".csv">>

\* "{0}/{1}-{2}.csv".format(output_path, name, experiment_id)
ContinuousFileName(exp) ==
    OutputPath \o <<"/">> \o DeviceName \o <<"-">> \o exp \o <<".csv">>

\* One transposed sample: the channel values (here the sample's arrival
\* number) and the trailing fields appended to it afterwards.
Record(n) == [chan |-> n, extra |-> << >>]
\* csv row of self.header (writer.writerow(self.header)); data rows have chan >= 1
HeaderRow(h) == [chan |-> 0, extra |-> <<h>>]

\* list(np.transpose(data)) for a block of n samples following sample `from`
Transpose(from, n) == [i \in 1..n |-> Record(from + i)]

\* (mutant) pop(0): the oldest record instead of the newest
PopIndex_first(buf) == 1

\* (mutant) pop(-2): the record before the last one, when there is one
PopIndex_before_last(buf) == IF Len(buf) > 1 THEN Len(buf) - 1 ELSE Len(buf)

\* The index list.pop() removes: the last one.
PopIndex(buf) == Len(buf)

\* buf without its i-th element
Without(buf, i) == SubSeq(buf, 1, i - 1) \o SubSeq(buf, i + 1, Len(buf))

\* (mutant) the shape test dropped: every pull is processed
NonEmptyPull_always(d) == TRUE

\* np.array(data).shape[1] is not 0
NonEmptyPull(d) == Len(d) # 0

\* s[k:] of Python for an integer k
PySliceFrom(s, k) ==
    LET n == Len(s)
        start == IF k < 0 THEN (IF n + k < 0 THEN 0 ELSE n + k)
                 ELSE (IF k > n THEN n ELSE k)
    IN  SubSeq(s, start + 1, n)

\* self._stream_data[-1 * 3 * self.sampling_rate:]
MonitoringSlice(buf, rate) == PySliceFrom(buf, (-1) * MonitorSeconds * rate)

\* --------------------------------------------------------------- variables
VARIABLES
    saving_mode,    \* self._saving_mode
    header,         \* self.header (None, or the column names)
    sampling_rate,  \* self.sampling_rate
    message_queue,  \* self.message_queue
    sent,           \* messages the orchestrator has put so far
    stream_data,    \* self._stream_data
    trigger,        \* self._trigger
    terminate,      \* self._terminate
    experiment_id,  \* self._experiment_id
    files,          \* the output directory: file name -> rows
    board_log,      \* start_stream / stop_stream calls made on self._board
    ctl_pc,         \* where _run is
    message,        \* _run's local `message`: the last one taken from the queue
    file_name,      \* _run's local `file_name` while a flush is in progress
    row_it,         \* _save_to_file: index of the `for row in` iterator
    wpc,            \* where _stream_loop is
    data,           \* _stream_loop's local `data`, transposed
    last_record,    \* _stream_loop's local `last_record`
    nsamples,       \* samples the board has delivered so far
    monitoring_data,\* what the last _get_monitoring_data() call returned
    monitored,      \* history: the buffer that call read
    trigger_at      \* history: how many records had been appended when the
                    \* pending trigger was stored (0 while none is pending)

vars == <<saving_mode, header, sampling_rate, message_queue, sent, stream_data,
          trigger, terminate, experiment_id, files, board_log, ctl_pc, message,
          file_name, row_it, wpc, data, last_record, nsamples, monitoring_data,
          monitored, trigger_at>>

config == <<saving_mode, header, sampling_rate>>
queue_vars == <<message_queue, sent>>
ctl_locals == <<ctl_pc, message, file_name, row_it>>
worker_locals == <<wpc, data, last_record>>
monitor_vars == <<monitoring_data, monitored>>

NoRecord == [chan |-> 0, extra |-> << >>]

\* Records the worker has appended to the buffer so far (pulled and extended).
Appended == IF wpc = "shape" \/ wpc = "extend" THEN nsamples - Len(data) ELSE nsamples

\* The state __init__ (lines 60-80) leaves, but for the sampling rate.
Constructed ==
    /\ saving_mode \in SavingModeEnum
    /\ header \in {None, <<"col">>}
    /\ message_queue = << >>
    /\ sent = 0
    /\ stream_data = << >>
    /\ terminate = FALSE
    /\ experiment_id = NoneStr
    /\ files = << >>
    /\ board_log = << >>
    /\ ctl_pc = "get"
    /\ message = NoneMsg
    /\ file_name = None
    /\ row_it = 0
    /\ wpc = "start_stream"
    /\ data = << >>
    /\ last_record = NoRecord
    /\ nsamples = 0
    /\ monitoring_data = << >>
    /\ monitored = << >>

\* __init__ (lines 60-80)
Init ==
    /\ Constructed
    /\ sampling_rate = MaxRate
    /\ trigger = None
    /\ trigger_at = 0

\* ------------------------------------------------------------ orchestrator
\* The DeviceCoordinator puts a message on the device's queue.  It does so
\* when the queue is empty: _run takes messages one at a time in order, so a
\* message waiting behind another is the same, to the program, as one put later.
Put(m) ==
    /\ sent < MaxMsgs
    /\ message_queue = << >>
    /\ message_queue' = Append(message_queue, m)
    /\ sent' = sent + 1
    /\ UNCHANGED <<config, stream_data, trigger, terminate, experiment_id, files,
                   board_log, ctl_locals, worker_locals, nsamples, monitor_vars,
                   trigger_at>>

\* ------------------------------------------------------------ control loop
\* (mutant) the last elif written as else: any other kind terminates
Branch_else(m) ==
    IF m = NoneMsg THEN "continue"
    ELSE IF m.type = START THEN "start"
    ELSE IF m.type = STOP THEN "stop"
    ELSE "terminate"

\* (mutant) `continue` of line 88 written as the TERMINATE branch: a None
\* message ends the loop
Branch_none(m) ==
    IF m = NoneMsg THEN "terminate"
    ELSE IF m.type = START THEN "start"
    ELSE IF m.type = STOP THEN "stop"
    ELSE IF m.type = TERMINATE THEN "terminate"
    ELSE "fallthrough"

\* The branch of _run's loop body a message takes (lines 87-105).
Branch(m) ==
    IF m = NoneMsg THEN "continue"
    ELSE IF m.type = START THEN "start"
    ELSE IF m.type = STOP THEN "stop"
    ELSE IF m.type = TERMINATE THEN "terminate"
    ELSE "fallthrough"

\* (mutant) the existence test dropped: the header is written at every flush
Opened_always(fs, f, h) ==
    LET first == IF h # None THEN <<HeaderRow(h)>> ELSE << >>
    IN  IF f \in DOMAIN fs THEN [fs EXCEPT ![f] = @ \o first]
        ELSE (f :> first) @@ fs

\* (mutant) the files opened with mode 'w': a flush starts its file afresh
Opened_truncate(fs, f, h) ==
    (f :> (IF h # None THEN <<HeaderRow(h)>> ELSE << >>)) @@ fs

\* _save_to_file, lines 152-158: the directory after the existence test and
\* the header write.
Opened(fs, f, h) ==
    IF f \in DOMAIN fs THEN fs
    ELSE (f :> (IF h # None THEN <<HeaderRow(h)>> ELSE << >>)) @@ fs

\* message = self.message_queue.get() returning a message (line 86)
Got(m) ==
    /\ ctl_pc = "get"
    /\ message_queue # << >>
    /\ m = Head(message_queue)
    /\ message_queue' = Tail(message_queue)
    /\ message' = m
    /\ UNCHANGED <<config, sent, board_log, worker_locals, nsamples, monitor_vars>>

\* lines 87-88: if message is None: continue
CtlNone ==
    \E m \in Messages :
        /\ Got(m)
        /\ Branch(m) = "continue"
        /\ UNCHANGED <<stream_data, trigger, terminate, experiment_id, files,
                       ctl_pc, file_name, row_it, trigger_at>>

\* lines 89-91: START
CtlStart ==
    \E m \in Messages :
        /\ Got(m)
        /\ Branch(m) = "start"
        /\ trigger' = TriggerTag(m)
        /\ experiment_id' = m.experiment_id
        /\ trigger_at' = Appended
        /\ UNCHANGED <<stream_data, terminate, files, ctl_pc, file_name, row_it>>

\* lines 92-104: STOP.  In separated mode the handler goes on into
\* _save_to_file (up to the start of its row loop); otherwise it stores a tag.
CtlStop ==
    \E m \in Messages :
        /\ Got(m)
        /\ Branch(m) = "stop"
        /\ experiment_id' = m.experiment_id
        /\ \/ /\ saving_mode = SEPARATED_SAVING_MODE
              /\ file_name' = SeparatedFileName(experiment_id', m.stimulus_id)
              /\ files' = Opened(files, file_name', header)
              /\ row_it' = 0
              /\ ctl_pc' = "save"
              /\ UNCHANGED <<trigger, trigger_at>>
           \/ /\ saving_mode # SEPARATED_SAVING_MODE
              /\ trigger' = TriggerTag(m)
              /\ trigger_at' = Appended
              /\ UNCHANGED <<files, ctl_pc, file_name, row_it>>
        /\ UNCHANGED <<stream_data, terminate>>

\* (mutant) the mode test of line 107 dropped: TERMINATE flushes in either mode
CtlTerminate_flush ==
    \E m \in Messages :
        /\ Got(m)
        /\ Branch(m) = "terminate"
        /\ terminate' = TRUE
        /\ file_name' = ContinuousFileName(experiment_id)
        /\ files' = Opened(files, file_name', header)
        /\ row_it' = 0
        /\ ctl_pc' = "save"
        /\ UNCHANGED <<stream_data, trigger, experiment_id, trigger_at>>

\* lines 105-113: TERMINATE
CtlTerminate ==
    \E m \in Messages :
        /\ Got(m)
        /\ Branch(m) = "terminate"
        /\ terminate' = TRUE
        /\ \/ /\ saving_mode = CONTINIOUS_SAVING_MODE
              /\ file_name' = ContinuousFileName(experiment_id)
              /\ files' = Opened(files, file_name', header)
              /\ row_it' = 0
              /\ ctl_pc' = "save"
           \/ /\ saving_mode # CONTINIOUS_SAVING_MODE
              /\ ctl_pc' = "break"
              /\ UNCHANGED <<files, file_name, row_it>>
        /\ UNCHANGED <<stream_data, trigger, experiment_id, trigger_at>>

\* a message no branch of lines 89-105 matches: the loop goes round
CtlFallThrough ==
    \E m \in Messages :
        /\ Got(m)
        /\ Branch(m) = "fallthrough"
        /\ UNCHANGED <<stream_data, trigger, terminate, experiment_id, files,
                       ctl_pc, file_name, row_it, trigger_at>>

\* _save_to_file, lines 162-164: the list iterator yields the next row of
\* self._stream_data and the row is written.
SaveRow ==
    /\ ctl_pc = "save"
    /\ row_it < Len(stream_data)
    /\ files' = [files EXCEPT ![file_name] = Append(@, stream_data[row_it + 1])]
    /\ row_it' = row_it + 1
    /\ UNCHANGED <<config, queue_vars, stream_data, trigger, terminate,
                   experiment_id, board_log, ctl_pc, message, file_name,
                   worker_locals, nsamples, monitor_vars, trigger_at>>

\* _save_to_file, line 162: the iterator finds no further row; the writer
\* returns to line 101 (STOP) or line 113 (TERMINATE).
SaveEnd ==
    /\ ctl_pc = "save"
    /\ row_it >= Len(stream_data)
    /\ row_it' = 0
    /\ ctl_pc' = IF message.type = STOP THEN "clear" ELSE "break"
    /\ UNCHANGED <<config, queue_vars, stream_data, trigger, terminate,
                   experiment_id, files, board_log, message, file_name,
                   worker_locals, nsamples, monitor_vars, trigger_at>>

\* line 101: self._stream_data = []
CtlClear ==
    /\ ctl_pc = "clear"
    /\ stream_data' = << >>
    /\ ctl_pc' = "get"
    /\ file_name' = None
    /\ UNCHANGED <<config, queue_vars, trigger, terminate, experiment_id, files,
                   board_log, message, row_it, worker_locals, nsamples,
                   monitor_vars, trigger_at>>

\* lines 113-115: break; self._board.stop_stream()
CtlStopStream ==
    /\ ctl_pc = "break"
    /\ board_log' = Append(board_log, "stop_stream")
    /\ ctl_pc' = "done"
    /\ file_name' = None
    /\ UNCHANGED <<config, queue_vars, stream_data, trigger, terminate,
                   experiment_id, files, message, row_it, worker_locals, nsamples,
                   monitor_vars, trigger_at>>

Control ==
    \/ CtlNone \/ CtlStart \/ CtlStop \/ CtlTerminate \/ CtlFallThrough
    \/ SaveRow \/ SaveEnd \/ CtlClear \/ CtlStopStream

\* ------------------------------------------------------ acquisition worker
\* line 118: self._board.start_stream()
WStartStream ==
    /\ wpc = "start_stream"
    /\ board_log' = Append(board_log, "start_stream")
    /\ wpc' = "check"
    /\ UNCHANGED <<config, queue_vars, stream_data, trigger, terminate,
                   experiment_id, files, ctl_locals, data, last_record, nsamples,
                   monitor_vars, trigger_at>>

\* lines 120-121: if self._terminate is True: break
WCheck ==
    /\ wpc = "check"
    /\ wpc' = IF terminate THEN "done" ELSE "pull"
    /\ UNCHANGED <<config, queue_vars, stream_data, trigger, terminate,
                   experiment_id, files, board_log, ctl_locals, data, last_record,
                   nsamples, monitor_vars, trigger_at>>

\* line 122: data = self._board.get_board_data()
WPull ==
    /\ wpc = "pull"
    /\ \E n \in 0..MaxPull :
        /\ nsamples + n <= MaxSamples
        /\ nsamples' = nsamples + n
        /\ data' = Transpose(nsamples, n)
    /\ wpc' = "shape"
    /\ UNCHANGED <<config, queue_vars, stream_data, trigger, terminate,
                   experiment_id, files, board_log, ctl_locals, last_record,
                   monitor_vars, trigger_at>>

\* line 123: if np.array(data).shape[1] is not 0
WShape ==
    /\ wpc = "shape"
    /\ wpc' = IF NonEmptyPull(data) THEN "extend" ELSE "check"
    /\ UNCHANGED <<config, queue_vars, stream_data, trigger, terminate,
                   experiment_id, files, board_log, ctl_locals, data, last_record,
                   nsamples, monitor_vars, trigger_at>>

\* line 124: self._stream_data.extend(list(np.transpose(data)))
WExtend ==
    /\ wpc = "extend"
    /\ stream_data' = stream_data \o data
    /\ wpc' = "if_trigger"
    /\ UNCHANGED <<config, queue_vars, trigger, terminate, experiment_id, files,
                   board_log, ctl_locals, data, last_record, nsamples,
                   monitor_vars, trigger_at>>

\* line 125: if self._trigger is not None
WIfTrigger ==
    /\ wpc = "if_trigger"
    /\ wpc' = IF trigger # None THEN "pop" ELSE "clear_trigger"
    /\ UNCHANGED <<config, queue_vars, stream_data, trigger, terminate,
                   experiment_id, files, board_log, ctl_locals, data, last_record,
                   nsamples, monitor_vars, trigger_at>>

\* line 126: last_record = self._stream_data.pop(); IndexError on an empty
\* list ends the thread.
WPop ==
    /\ wpc = "pop"
    /\ IF stream_data = << >>
       THEN /\ wpc' = "IndexError"
            /\ data' = << >>
            /\ UNCHANGED <<stream_data, last_record>>
       ELSE /\ last_record' = stream_data[PopIndex(stream_data)]
            /\ stream_data' = Without(stream_data, PopIndex(stream_data))
            /\ wpc' = "tag"
            /\ UNCHANGED data
    /\ UNCHANGED <<config, queue_vars, trigger, terminate, experiment_id, files,
                   board_log, ctl_locals, nsamples, monitor_vars, trigger_at>>

\* lines 129-130: last_record = list(last_record); last_record.append(self._trigger)
WTag ==
    /\ wpc = "tag"
    /\ last_record' = [last_record EXCEPT !.extra = Append(@, trigger)]
    /\ wpc' = "reappend"
    /\ UNCHANGED <<config, queue_vars, stream_data, trigger, terminate,
                   experiment_id, files, board_log, ctl_locals, data, nsamples,
                   monitor_vars, trigger_at>>

\* line 133: self._stream_data.append(last_record)
WReappend ==
    /\ wpc = "reappend"
    /\ stream_data' = Append(stream_data, last_record)
    /\ wpc' = "clear_trigger"
    /\ UNCHANGED <<config, queue_vars, trigger, terminate, experiment_id, files,
                   board_log, ctl_locals, data, last_record, nsamples,
                   monitor_vars, trigger_at>>

\* line 134: self._trigger = None, and round the loop again
WClearTrigger ==
    /\ wpc = "clear_trigger"
    /\ trigger' = None
    /\ trigger_at' = 0
    /\ data' = << >>
    /\ last_record' = NoRecord
    /\ wpc' = "check"
    /\ UNCHANGED <<config, queue_vars, stream_data, terminate, experiment_id,
                   files, board_log, ctl_locals, nsamples, monitor_vars>>

Worker ==
    \/ WStartStream \/ WCheck \/ WPull \/ WShape \/ WExtend \/ WIfTrigger
    \/ WPop \/ WTag \/ WReappend \/ WClearTrigger

\* ------------------------------------------------------ persistence error
\* _save_to_file raising OSError (open or writerow failing: disk full, file
\* not writable).  Nothing in _run catches it: the exception leaves _run at
\* line 100 or 112, before line 101, 113 and 115.
SaveFails ==
    /\ ctl_pc = "save"
    /\ ctl_pc' = "OSError"
    /\ UNCHANGED <<config, queue_vars, stream_data, trigger, terminate,
                   experiment_id, files, board_log, message, file_name, row_it,
                   worker_locals, nsamples, monitor_vars, trigger_at>>

\* -------------------------------------------------------------- monitoring
\* _get_monitoring_data (lines 166-170), called from the monitoring endpoint
GetMonitoringData ==
    /\ monitoring_data' = MonitoringSlice(stream_data, sampling_rate)
    /\ monitored' = stream_data
    /\ UNCHANGED <<config, queue_vars, stream_data, trigger, terminate,
                   experiment_id, files, board_log, ctl_locals, worker_locals,
                   nsamples, trigger_at>>

\* ------------------------------------------------------------------- specs
Next ==
    \/ \E m \in Messages : Put(m)
    \/ Control
    \/ Worker

\* The two threads interleaved statement by statement, persistence never failing.
Spec == Init /\ [][Next]_vars

\* The same with the scheduling Python gives its threads: neither is starved.
FairSpec == Spec /\ WF_vars(Control) /\ WF_vars(Worker)

\* The same where a flush may fail.
NextIO == Next \/ SaveFails
SpecIO == Init /\ [][NextIO]_vars

\* Handlers and worker iterations run one at a time, as they would under a
\* lock around each: the reference the interleaved runs are compared with.
CtlIdle == ctl_pc \in {"get", "done"}
WorkerIdle == wpc \in {"start_stream", "check", "done"}
NextSeq ==
    \/ \E m \in Messages : Put(m)
    \/ WorkerIdle /\ Control
    \/ CtlIdle /\ Worker
SpecSeq == Init /\ [][NextSeq]_vars

\* The monitoring snapshot on its own: the worker fills the buffer (a START
\* may already have stored a tag) for each configured sampling rate, and the
\* snapshot is taken at any point.
InitMon ==
    /\ Constructed
    /\ sampling_rate \in 0..MaxRate
    /\ trigger \in {None} \cup {TriggerTag(m) : m \in {x \in Messages : x.type = START}}
    /\ trigger_at = 0
NextMon == Worker \/ GetMonitoringData
SpecMon == InitMon /\ [][NextMon]_vars


\* ------------------------------------------------- the writer on its own
\* _save_to_file called directly, again and again, on a buffer that does not
\* change between the calls.
MaxFlushes == 2     \* calls of _save_to_file made for one path

\* the buffers the worker can have built: records in arrival order, each
\* with or without a tag
Buffers ==
    UNION {{[i \in 1..n |-> [chan |-> i, extra |-> x[i]]] :
                x \in [1..n -> {<< >>, <<TriggerTag(Msg(START, <<"1">>, <<"3">>))>>}]} :
           n \in 0..MaxSamples}

Paths == {SeparatedFileName(<<"1">>, <<"3">>), ContinuousFileName(<<"1">>)}

\* s repeated k times
RECURSIVE Rep(_, _)
Rep(s, k) == IF k = 0 THEN << >> ELSE Rep(s, k - 1) \o s

\* the data rows of file f (a header line has chan 0)
DataRows(f) == SelectSeq(files[f], LAMBDA r : r.chan > 0)

\* the header line a file starts with
HeaderLines(h) == IF h # None THEN <<HeaderRow(h)>> ELSE << >>

\* flushes of the current buffer already written to path f
Flushes(f) ==
    IF f \notin DOMAIN files \/ stream_data = << >> THEN 0
    ELSE Len(DataRows(f)) \div Len(stream_data)

InitSave ==
    /\ saving_mode \in SavingModeEnum
    /\ header \in {None, <<"col">>}
    /\ sampling_rate = MaxRate
    /\ message_queue = << >>
    /\ sent = 0
    /\ stream_data \in Buffers
    /\ trigger = None
    /\ terminate = FALSE
    /\ experiment_id = NoneStr
    /\ files = << >>
    /\ board_log = << >>
    /\ ctl_pc = "idle"
    /\ message = NoneMsg
    /\ file_name = None
    /\ row_it = 0
    /\ wpc = "start_stream"
    /\ data = << >>
    /\ last_record = NoRecord
    /\ nsamples = 0
    /\ monitoring_data = << >>
    /\ monitored = << >>
    /\ trigger_at = 0

\* self._save_to_file(f) entered: lines 152-158, up to the row loop
SaveCall(f) ==
    /\ ctl_pc = "idle"
    /\ Flushes(f) < MaxFlushes
    /\ file_name' = f
    /\ files' = Opened(files, f, header)
    /\ row_it' = 0
    /\ ctl_pc' = "save"
    /\ UNCHANGED <<config, queue_vars, stream_data, trigger, terminate,
                   experiment_id, board_log, message, worker_locals, nsamples,
                   monitor_vars, trigger_at>>

\* the call has returned to its caller
SaveReturn ==
    /\ ctl_pc = "break"
    /\ ctl_pc' = "idle"
    /\ file_name' = None
    /\ UNCHANGED <<config, queue_vars, stream_data, trigger, terminate,
                   experiment_id, files, board_log, message, row_it,
                   worker_locals, nsamples, monitor_vars, trigger_at>>

NextSave ==
    \/ \E f \in Paths : SaveCall(f)
    \/ SaveRow
    \/ SaveEnd
    \/ SaveReturn
SpecSave == InitSave /\ [][NextSave]_vars

\* ------------------------------------------------------------ vocabulary
Chans(rows) == [i \in 1..Len(rows) |-> rows[i].chan]
UpTo(n) == [i \in 1..n |-> i]

\* the places a record with arrival number id is written at
WrittenAt(id) ==
    UNION {{<<f, i>> : i \in {j \in 1..Len(files[f]) : files[f][j].chan = id}} :
              f \in DOMAIN files}
Buffered(id) == \E i \in 1..Len(stream_data) : stream_data[i].chan = id
\* popped by the worker and not yet appended again (lines 126-133)
Held(id) == wpc \in {"tag", "reappend"} /\ last_record.chan = id

WorkerExited == wpc \in {"done", "IndexError"}

\* ------------------------------------------------------------------ claims

\* C1: in SEPARATED mode each STOP writes the file named by its own ids, and
\* every record the worker has appended is written by exactly one flush or is
\* still on its way to one (in the buffer, or held by the worker for
\* tagging): none is missing from every file, none is written twice.
C1_SeparatedFlushExact ==
    saving_mode = SEPARATED_SAVING_MODE =>
        /\ ctl_pc \in {"save", "clear"} =>
              /\ file_name = SeparatedFileName(message.experiment_id, message.stimulus_id)
              /\ file_name \in DOMAIN files
        /\ \A id \in 1..Appended :
              /\ Cardinality(WrittenAt(id)) <= 1
              /\ WrittenAt(id) # {} \/ Buffered(id) \/ Held(id)

\* C2: in CONTINUOUS mode, once TERMINATE has been processed and the worker
\* has stopped, there is exactly one file, named by the last experiment id
\* seen, and its data rows are all the records the worker appended, in
\* arrival order.
C2_ContinuousFileComplete ==
    (saving_mode = CONTINIOUS_SAVING_MODE /\ ctl_pc \in {"break", "done"}
        /\ WorkerExited) =>
            /\ DOMAIN files = {ContinuousFileName(experiment_id)}
            /\ Chans(DataRows(ContinuousFileName(experiment_id))) = UpTo(Appended)

\* the tags an event of this session can store: START always, STOP only when
\* the mode is not SEPARATED
StorableTags ==
    {TriggerTag(m) : m \in {x \in Messages :
        x.type = START \/ (x.type = STOP /\ saving_mode # SEPARATED_SAVING_MODE)}}

\* every record the program holds: buffered, held by the worker, or written
AllRecords ==
    Range(stream_data)
        \cup (IF wpc \in {"tag", "reappend"} THEN {last_record} ELSE {})
        \cup {r \in UNION {Range(files[f]) : f \in DOMAIN files} : r.chan > 0}
TaggedChans == {r.chan : r \in {x \in AllRecords : x.extra # << >>}}

C4_ZeroPullNoEffect ==
    /\ [][(wpc' # wpc /\ data = << >> /\ data' = << >>) =>
            (stream_data' = stream_data /\ trigger' = trigger)]_vars
    /\ [][(trigger # None /\ trigger' = None) => data # << >>]_vars

\* C4 witness: a pull has just returned no sample while a tag is pending and
\* the buffer holds records.
C4_Witness ==
    /\ wpc = "shape"
    /\ data = << >>
    /\ trigger # None
    /\ stream_data # << >>

Min(a, b) == IF a < b THEN a ELSE b

\* C5: the snapshot a monitoring call returns is the tail of the buffer it
\* read, in buffer order, never longer than 3 * sampling_rate and never
\* shorter than min(buffer length, 3 * sampling_rate).
C5_SnapshotBounds ==
    LET want == MonitorSeconds * sampling_rate
        n == Len(monitored)
        k == Len(monitoring_data)
    IN  /\ k <= want
        /\ k >= Min(n, want)
        /\ k <= n
        /\ monitoring_data = SubSeq(monitored, n - k + 1, n)

\* C6: in every file, a configured header is the first line and the only
\* header line, whatever the number of flushes to that path; with no
\* header configured no file holds a header line.
C6_HeaderOnce ==
    \A f \in DOMAIN files :
        LET rows == files[f]
        IN  IF header # None
            THEN /\ Len(rows) >= 1
                 /\ rows[1] = HeaderRow(header)
                 /\ \A i \in 2..Len(rows) : rows[i].chan > 0
            ELSE \A i \in 1..Len(rows) : rows[i].chan > 0

\* C6 witness: a flush found its file present, holding the header and data
\* rows of an earlier flush, and has appended a row of its own.
C6_Witness ==
    /\ ctl_pc = "save"
    /\ header # None
    /\ row_it >= 1
    /\ Len(files[file_name]) > 1 + row_it

\* C7: the worker leaves its loop only when the termination flag is set and,
\* once it is set, eventually does, starting no new pull after a check that
\* saw the flag; the control loop takes no message from the queue after
\* TERMINATE.
C7_CancellationOnlyByTerminate ==
    /\ [](WorkerExited => terminate)
    /\ [][(terminate /\ wpc = "check") => wpc' \in {"check", "done"}]_vars
    /\ [][(ctl_pc \in {"break", "done"}) =>
            (Len(message_queue') >= Len(message_queue))]_vars
    /\ (terminate ~> WorkerExited)

\* C8: the calls made on the board are start_stream once, by the worker,
\* then stop_stream once, by the control loop after it has processed
\* TERMINATE and left its loop; the stop never comes first, and once both
\* threads have finished the stream has been started and then stopped.
C8_StreamStartedThenStopped ==
    /\ board_log \in {<< >>, <<"start_stream">>, <<"start_stream", "stop_stream">>}
    /\ "stop_stream" \in Range(board_log) => (ctl_pc = "done" /\ terminate)
    /\ (ctl_pc = "done" /\ WorkerExited) =>
            board_log = <<"start_stream", "stop_stream">>

\* C9: a flush that fails does not end the control loop: _run has no
\* statement that reports an error, so the loop would have to be still
\* handling messages; instead the exception leaves _run.
C9_FlushFailureKeepsLoopAlive == ctl_pc # "OSError"

\* the control loop takes from the queue a message of a kind that is none of
\* START, STOP, TERMINATE (and is not None)
TakesUnknownKind ==
    /\ ctl_pc = "get"
    /\ message_queue # << >>
    /\ message_queue' = Tail(message_queue)
    /\ Head(message_queue) # NoneMsg
    /\ Head(message_queue).type \notin {START, STOP, TERMINATE}

\* C10: processing a message of unknown kind changes neither the experiment
\* id, the trigger register, the termination flag, the buffer nor any file,
\* raises nothing, and leaves the control loop at its queue for the next message.
C10_UnknownKindNoOp ==
    [][TakesUnknownKind =>
        /\ UNCHANGED <<experiment_id, trigger, terminate, stream_data, files>>
        /\ ctl_pc' = "get"]_vars

\* C10 witness: a SAVE message has been processed with a tag pending and
\* records buffered, both still there, and the next message is waiting.
C10_Witness ==
    /\ message.type = SAVE
    /\ ctl_pc = "get"
    /\ trigger # None
    /\ stream_data # << >>
    /\ ~terminate
    /\ message_queue # << >>


\* the control loop takes a None message from the queue
TakesNone ==
    /\ ctl_pc = "get"
    /\ message_queue # << >>
    /\ message_queue' = Tail(message_queue)
    /\ Head(message_queue) = NoneMsg

\* C11: taking a None message from the queue changes neither the experiment
\* id, the trigger register, the termination flag, the buffer nor any file,
\* and leaves the control loop in its loop, at the queue, for the next message.
C11_NoneMessageIgnored ==
    [][TakesNone =>
        /\ UNCHANGED <<experiment_id, trigger, terminate, stream_data, files,
                       board_log>>
        /\ ctl_pc' = "get"]_vars

\* C11 witness: a None message was the last one taken, with a tag pending,
\* an experiment id set and records buffered; the loop waits at the empty queue.
C11_Witness ==
    /\ sent >= 2
    /\ message = NoneMsg
    /\ message_queue = << >>
    /\ ctl_pc = "get"
    /\ trigger # None
    /\ experiment_id # NoneStr
    /\ stream_data # << >>
    /\ ~terminate

\* every row of every file is still there, at its place, after the step
RowsKept ==
    \A f \in DOMAIN files :
        /\ f \in DOMAIN files'
        /\ Len(files'[f]) >= Len(files[f])
        /\ SubSeq(files'[f], 1, Len(files[f])) = files[f]

\* C12: the writer appends and never overwrites: no step removes or rewrites
\* a row a file already holds, and between calls a file flushed k times with
\* the same buffer holds the header (if configured) once, followed by the
\* buffer's rows k times in buffer order (k = 2: the rows twice).
C12_WriterAppendsOnly ==
    /\ [][RowsKept]_vars
    /\ [](ctl_pc = "idle" =>
            \A f \in DOMAIN files :
                \E k \in 1..MaxFlushes :
                    files[f] = HeaderLines(header) \o Rep(stream_data, k))

\* C12 witness: the second call for a path has returned; the file holds the
\* header and the two buffered records (one tagged) twice over.
C12_Witness ==
    /\ ctl_pc = "idle"
    /\ header # None
    /\ Len(stream_data) = 2
    /\ stream_data[2].extra # << >>
    /\ \E f \in DOMAIN files :
          files[f] = <<HeaderRow(header)>> \o stream_data \o stream_data

\* C13: the trigger register goes from a pending tag to empty only when the
\* worker has, in that iteration, attached that very tag to a record: no
\* stored tag is cleared without having been appended to a record.
C13_TagClearedOnlyAfterAttached ==
    [][(trigger # None /\ trigger' = None) => last_record.extra = <<trigger>>]_vars

\* C14: whenever the worker is about to remove the last record in order to
\* tag it (line 126), the buffer is non-empty and its last record is the
\* last one of the pull the worker has just appended; the removal never
\* fails on an empty buffer.
C14_PopFindsOwnRecord ==
    /\ wpc # "IndexError"
    /\ wpc = "pop" =>
          /\ stream_data # << >>
          /\ stream_data[Len(stream_data)] = data[Len(data)]

\* the control loop takes from the queue an event that stores a tag: a
\* START, or a STOP outside SEPARATED mode
TakesTagEvent ==
    /\ ctl_pc = "get"
    /\ message_queue # << >>
    /\ message_queue' = Tail(message_queue)
    /\ Head(message_queue) # NoneMsg
    /\ \/ Head(message_queue).type = START
       \/ Head(message_queue).type = STOP /\ saving_mode # SEPARATED_SAVING_MODE

\* last writer wins: the event's tag replaces whatever was pending
LastWriterWins ==
    [][TakesTagEvent => trigger' = TriggerTag(Head(message_queue))]_vars

\* the worker attaches the tag pending at that moment, as the one trailing
\* field of one record
AttachesPendingTag ==
    [][(wpc = "tag" /\ wpc' = "reappend") =>
            /\ last_record.extra = << >>
            /\ last_record'.extra = <<trigger>>]_vars

\* C15: the register holds at most one tag and the last writer wins; the
\* worker attaches exactly one tag, the pending one, to one record; and a
\* tag pending when an iteration with a non-empty pull ends has been
\* attached by that iteration.
C15_LastWriterWinsAndAttached ==
    /\ LastWriterWins
    /\ AttachesPendingTag
    /\ [][(wpc = "clear_trigger" /\ wpc' = "check" /\ trigger # None) =>
            last_record.extra = <<trigger>>]_vars


\* the file rows that hold record c with a tag field
TaggedRowsOf(c) ==
    UNION {{<<f, i>> : i \in {j \in 1..Len(files[f]) :
                files[f][j].chan = c /\ files[f][j].extra # << >>}} :
           f \in DOMAIN files}

\* a step that changes a record somewhere: in the buffer, in the worker's
\* hands or in a file
RecordsChange ==
    stream_data' # stream_data \/ last_record' # last_record \/ files' # files

\* C16: the record the worker removes to tag is the last record of the
\* buffer at that moment, which is the last record of the pull of that
\* iteration and carries no tag yet; attaching the tag makes exactly that one
\* record tagged, no other step tags a record, and every record in the
\* buffer, in the worker's hands or in a file carries at most one tag field,
\* and a tagged record is written to at most one row of the files.
C16_TagOnSingleLastRecord ==
    /\ [][(wpc = "pop" /\ wpc' = "tag") =>
            /\ last_record' = stream_data[Len(stream_data)]
            /\ last_record' = data[Len(data)]
            /\ last_record'.extra = << >>]_vars
    /\ [][(wpc = "tag" /\ wpc' = "reappend") =>
            /\ last_record'.chan = last_record.chan
            /\ last_record.chan \notin TaggedChans
            /\ TaggedChans' = TaggedChans \cup {last_record.chan}]_vars
    /\ [][(RecordsChange /\ ~(wpc = "tag" /\ wpc' = "reappend")) =>
            TaggedChans' \subseteq TaggedChans]_vars
    /\ [][RecordsChange => \A r \in AllRecords' : Len(r.extra) <= 1]_vars
    /\ [][files' # files =>
            \A c \in 1..nsamples : Cardinality(TaggedRowsOf(c)') <= 1]_vars

\* C16 witness: the worker holds the second record of a two-sample pull with
\* the pending tag attached; the first record of the pull, untagged, is the
\* last one left in the buffer.
C16_Witness ==
    /\ wpc = "reappend"
    /\ Len(data) = 2
    /\ last_record.chan = data[2].chan
    /\ last_record.extra = <<trigger>>
    /\ trigger # None
    /\ stream_data # << >>
    /\ stream_data[Len(stream_data)] = data[1]

\* C17: in CONTINUOUS mode no step makes the buffer shorter or removes a
\* record from its place in it, the worker's tag attachment included; in
\* SEPARATED mode the buffer is empty right after the step that completes a
\* STOP flush.
C17_BufferOnlyGrows ==
    /\ [][saving_mode = CONTINIOUS_SAVING_MODE =>
            /\ Len(stream_data') >= Len(stream_data)
            /\ \A i \in 1..Len(stream_data) :
                    stream_data'[i].chan = stream_data[i].chan]_vars
    /\ [][(ctl_pc = "clear" /\ ctl_pc' = "get") => stream_data' = << >>]_vars

\* C18: in SEPARATED mode no tag is left pending across a flush: when a
\* STOP's flush completes (line 101) the register is empty, the START's
\* tag having been attached to a record before.
C18_NoTagPendingAcrossFlush ==
    [][(saving_mode = SEPARATED_SAVING_MODE /\ ctl_pc = "clear" /\ ctl_pc' = "get") =>
            trigger' = None]_vars

\* the control loop takes a TERMINATE message from the queue
TakesTerminate ==
    /\ ctl_pc = "get"
    /\ message_queue # << >>
    /\ message_queue' = Tail(message_queue)
    /\ Head(message_queue).type = TERMINATE

\* C19: in SEPARATED mode processing TERMINATE sets the termination flag,
\* creates or modifies no file, leaves the buffer as it is and goes to the
\* end of _run without entering the writer; a file is created or modified
\* in SEPARATED mode only while a STOP is being handled, never after TERMINATE.
C19_NoFlushAtTerminateWhenSeparated ==
    /\ [][(saving_mode = SEPARATED_SAVING_MODE /\ TakesTerminate) =>
            /\ terminate'
            /\ UNCHANGED <<files, stream_data, trigger, experiment_id>>
            /\ ctl_pc' = "break"]_vars
    /\ [][(saving_mode = SEPARATED_SAVING_MODE /\ files' # files) =>
            (message'.type = STOP /\ ctl_pc' = "save" /\ ~terminate')]_vars

\* C19 witness: a SEPARATED session has processed TERMINATE and finished
\* with records in the buffer that no file holds.
C19_Witness ==
    /\ saving_mode = SEPARATED_SAVING_MODE
    /\ message.type = TERMINATE
    /\ terminate
    /\ ctl_pc = "done"
    /\ stream_data # << >>
    /\ files = << >>

\* stimulus ids as strings of up to three characters
StimulusIds ==
    UNION {[1..n -> {"0", "3"}] : n \in 0..3}

\* t is s left-padded with "0" to at least ZfillWidth characters
PaddedFrom(t, s) ==
    /\ Len(t) = (IF Len(s) >= ZfillWidth THEN Len(s) ELSE ZfillWidth)
    /\ SubSeq(t, Len(t) - Len(s) + 1, Len(t)) = s
    /\ \A i \in 1..(Len(t) - Len(s)) : t[i] = "0"

\* C20: the tag a START, or a STOP outside SEPARATED mode, stores is the
\* message's kind, "-", its experiment id, "-" and its stimulus id
\* left-padded with zeros to at least 2 characters (unchanged when it has 2
\* or more), as str.zfill does for every stimulus id of up to three
\* characters; a STOP in SEPARATED mode leaves the register as it is.
C20_TagFormat ==
    /\ [][TakesTagEvent =>
            LET m == Head(message_queue)
                prefix == <<m.type, "-">> \o m.experiment_id \o <<"-">>
            IN  /\ Len(trigger') > Len(prefix)
                /\ SubSeq(trigger', 1, Len(prefix)) = prefix
                /\ PaddedFrom(SubSeq(trigger', Len(prefix) + 1, Len(trigger')),
                              m.stimulus_id)
                /\ \A s \in StimulusIds :
                        /\ PaddedFrom(zfill(s, ZfillWidth), s)
                        /\ Len(s) >= ZfillWidth => zfill(s, ZfillWidth) = s]_vars
    /\ [][(ctl_pc = "get" /\ message_queue # << >>
            /\ message_queue' = Tail(message_queue)
            /\ Head(message_queue).type = STOP
            /\ saving_mode = SEPARATED_SAVING_MODE) => trigger' = trigger]_vars

\* C20 witness: START with experiment id "1" and stimulus id "3" has been
\* processed and its tag START-1-03 is in the register.
C20_Witness ==
    /\ message = Msg(START, <<"1">>, <<"3">>)
    /\ trigger = <<"START", "-", "1", "-", "0", "3">>
    /\ ctl_pc = "get"

=============================================================================
